---- MODULE Spec2Model ----
(***************************************************************************)
(* Scene graph, scene, render traversal and input direction of the         *)
(* quickrender renderer.                                                    *)
(*                                                                         *)
(* An Object is a shared handle (Rc) to a node; the model names a node by  *)
(* the number Object::new gave it, and a handle is that number.  Handles   *)
(* can be cloned freely (derive(Clone), get_child), so every operation may *)
(* be handed any node that exists.                                         *)
(*                                                                         *)
(* Mat4 is a 4x4 matrix, kept as a tuple of four rows, with exact integer  *)
(* entries: translations and scales by integer vectors and rotations by    *)
(* whole quarter turns are the values the model draws from.                *)
(***************************************************************************)
EXTENDS Integers, Sequences, FiniteSets, TLC

VARIABLES
    objects,    \* the nodes: objects[n] is the ObjectInternal behind handle n
    scene,      \* the application's Option<Scene>
    last,       \* the most recent call, with what it returned
    calls,      \* the calls made so far that write a local transform or
                \* insert a resource, and the events handled, with their
                \* arguments
    queue,      \* what the frame being rendered has given the backend so far
    panicked,   \* the process has aborted (panic or stack overflow)
    gpu,        \* the Gpu: its cache of render pipelines, and the pipelines built
    materials,  \* the SimpleMaterial values constructed so far
    store,      \* the DataStore: the pool of models and the pool of cameras
    app         \* the App: whether it has a renderer, the key event kept and
                \* the pointer motion accumulated

vars == <<objects, scene, last, calls, queue, panicked, gpu, materials, store, app>>

(* ------------------------------ bounds -------------------------------- *)

\* Object::new calls in a run.
MaxObjects == 3
\* Length of a child list (and of the vector given to with_children / Scene::new).
MaxChildren == 2
\* Entries in all child lists together.
MaxEdges == 2
\* Nodes of a run that renders frames, the root of the scene included.
MaxSceneObjects == 3
\* Object::new calls in a run that composes world transforms.
MaxWorldObjects == 3
\* Object::new calls in a run that writes local transforms.
MaxXformObjects == 2
\* Calls that write a local transform in a run.
MaxMutations == 3

(* ------------------------------- glam --------------------------------- *)

IDENTITY ==
    << <<1, 0, 0, 0>>,
       <<0, 1, 0, 0>>,
       <<0, 0, 1, 0>>,
       <<0, 0, 0, 1>> >>

\* Row r of a times column c of b.
Dot(a, b, r, c) ==
    a[r][1] * b[1][c] + a[r][2] * b[2][c] + a[r][3] * b[3][c] + a[r][4] * b[4][c]

\* Mat4 * Mat4: the matrix product, (a * b) v = a (b v).
Mat4Mul(a, b) ==
    << <<Dot(a, b, 1, 1), Dot(a, b, 1, 2), Dot(a, b, 1, 3), Dot(a, b, 1, 4)>>,
       <<Dot(a, b, 2, 1), Dot(a, b, 2, 2), Dot(a, b, 2, 3), Dot(a, b, 2, 4)>>,
       <<Dot(a, b, 3, 1), Dot(a, b, 3, 2), Dot(a, b, 3, 3), Dot(a, b, 3, 4)>>,
       <<Dot(a, b, 4, 1), Dot(a, b, 4, 2), Dot(a, b, 4, 3), Dot(a, b, 4, 4)>> >>

\* cos and sin of q quarter turns.
Cos(q) == CASE q % 4 = 0 -> 1 [] q % 4 = 1 -> 0 [] q % 4 = 2 -> -1 [] OTHER -> 0
Sin(q) == CASE q % 4 = 0 -> 0 [] q % 4 = 1 -> 1 [] q % 4 = 2 -> 0 [] OTHER -> -1

from_translation(v) ==
    << <<1, 0, 0, v[1]>>,
       <<0, 1, 0, v[2]>>,
       <<0, 0, 1, v[3]>>,
       <<0, 0, 0, 1>> >>

from_rotation_x(q) ==
    << <<1, 0, 0, 0>>,
       <<0, Cos(q), -Sin(q), 0>>,
       <<0, Sin(q), Cos(q), 0>>,
       <<0, 0, 0, 1>> >>

from_rotation_y(q) ==
    << <<Cos(q), 0, Sin(q), 0>>,
       <<0, 1, 0, 0>>,
       <<-Sin(q), 0, Cos(q), 0>>,
       <<0, 0, 0, 1>> >>

from_rotation_z(q) ==
    << <<Cos(q), -Sin(q), 0, 0>>,
       <<Sin(q), Cos(q), 0, 0>>,
       <<0, 0, 1, 0>>,
       <<0, 0, 0, 1>> >>

from_scale(v) ==
    << <<v[1], 0, 0, 0>>,
       <<0, v[2], 0, 0>>,
       <<0, 0, v[3], 0>>,
       <<0, 0, 0, 1>> >>

\* The fault of reading component .0, the scale, for the camera position.
scale_of(m) == <<m[1][1], m[2][2], m[3][3]>>

\* to_scale_rotation_translation().2: the translation column of the matrix.
translation_of(m) == <<m[1][4], m[2][4], m[3][4]>>

(* ------------------------------ values -------------------------------- *)

\* The application's own transforms (main.rs): the model is turned by
\* -2*PI/4 about x, the camera is moved by (-2, 0, 6).
AppRotation == from_rotation_x(-1)
AppTranslation == from_translation(<<-2, 0, 6>>)

Empty == [kind |-> "Empty", id |-> 0]
Model(id) == [kind |-> "Model", id |-> id]
Camera(id) == [kind |-> "Camera", id |-> id]

None == [some |-> FALSE]
Some(x) == [some |-> TRUE, val |-> x]

Nodes == DOMAIN objects

\* Vectors of handles of length 0..MaxChildren.
RECURSIVE SeqsUpTo(_, _)
SeqsUpTo(S, n) ==
    IF n = 0 THEN {<<>>}
    ELSE LET shorter == SeqsUpTo(S, n - 1)
         IN shorter \cup {Append(s, x) : s \in {t \in shorter : Len(t) = n - 1}, x \in S}

NoCall == [op |-> "none"]

(* ------------------------------ Object -------------------------------- *)

\* Object::new: a fresh node with no parent and no children.
ObjectInternal(data, xform) ==
    [xform |-> xform, data |-> data, parent |-> None, children |-> <<>>]

Init ==
    /\ objects = <<>>
    /\ scene = None
    /\ last = NoCall
    /\ calls = <<>>
    /\ queue = <<>>
    /\ panicked = FALSE
    /\ gpu = [render_pipelines |-> <<>>, made |-> 0]
    /\ materials = <<>>
    /\ store = [models |-> <<>>, cameras |-> <<>>]
    /\ app = [renderer |-> FALSE, key_event |-> None, mouse_motion |-> <<0, 0>>]

\* Object::new(data, xform); the payload is a resource created for this node.
New(kind, xform) ==
    /\ ~panicked
    /\ LET id == Cardinality(Nodes) + 1
           data == CASE kind = "Model" -> Model(id)
                     [] kind = "Camera" -> Camera(id)
                     [] OTHER -> Empty
       IN /\ objects' = Append(objects, ObjectInternal(data, xform))
          /\ last' = [op |-> "new"]
    /\ UNCHANGED <<scene, calls, queue, panicked, gpu, materials, store, app>>

\* Object::with_children: the child list is replaced by the given vector.
with_children(objs, self, children) ==
    [objs EXCEPT ![self].children = children]

WithChildren(self, children) ==
    /\ ~panicked
    /\ self \in Nodes
    /\ objects' = with_children(objects, self, children)
    /\ last' = [op |-> "with_children"]
    /\ UNCHANGED <<scene, calls, queue, panicked, gpu, materials, store, app>>

\* Object::add_child: the handle is pushed at the end of the child list.
add_child(objs, self, obj) ==
    [objs EXCEPT ![self].children = Append(@, obj)]

AddChild(self, obj) ==
    /\ ~panicked
    /\ self \in Nodes /\ obj \in Nodes
    /\ objects' = add_child(objects, self, obj)
    /\ last' = [op |-> "add_child"]
    /\ UNCHANGED <<scene, calls, queue, panicked, gpu, materials, store, app>>

\* The write of a local transform shared by the calls below, with the call
\* added to the record of calls.
Mutate(self, op, arg, xform) ==
    /\ ~panicked
    /\ self \in Nodes
    /\ objects' = [objects EXCEPT ![self].xform = xform]
    /\ last' = [op |-> op, self |-> self]
    /\ calls' = Append(calls, [op |-> op, self |-> self, arg |-> arg])
    /\ UNCHANGED <<scene, queue, panicked, gpu, materials, store, app>>

\* Object::set: the local transform is replaced.
set(self, xform) == xform

Set(self, xform) == Mutate(self, "set", xform, set(self, xform))

\* The fault of multiplying from the left: xform = E * xform.
translate_premultiplied(self, translation) ==
    Mat4Mul(from_translation(translation), objects[self].xform)

\* Object::translate: xform *= Mat4::from_translation(translation).
translate(self, translation) ==
    Mat4Mul(objects[self].xform, from_translation(translation))

Translate(self, translation) ==
    Mutate(self, "translate", translation, translate(self, translation))

\* Object::rotate_x, rotate_y, rotate_z: xform *= Mat4::from_rotation_*(rotation).
rotate_x(self, rotation) == Mat4Mul(objects[self].xform, from_rotation_x(rotation))

RotateX(self, rotation) == Mutate(self, "rotate_x", rotation, rotate_x(self, rotation))

rotate_y(self, rotation) == Mat4Mul(objects[self].xform, from_rotation_y(rotation))

RotateY(self, rotation) == Mutate(self, "rotate_y", rotation, rotate_y(self, rotation))

rotate_z(self, rotation) == Mat4Mul(objects[self].xform, from_rotation_z(rotation))

RotateZ(self, rotation) == Mutate(self, "rotate_z", rotation, rotate_z(self, rotation))

\* Object::scale: xform *= Mat4::from_scale(scale).
scale(self, v) == Mat4Mul(objects[self].xform, from_scale(v))

Scale(self, v) == Mutate(self, "scale", v, scale(self, v))

\* The fault of `*=` for `=` in reset: the transform is multiplied by the
\* identity and so kept.
reset_multiplied(self) == Mat4Mul(objects[self].xform, IDENTITY)

\* Object::reset: the local transform becomes the identity.
reset(self) == IDENTITY

Reset(self) == Mutate(self, "reset", <<>>, reset(self))

\* Object::get_local_xform: the local transform, read.
get_local_xform(self) == objects[self].xform

\* Depth of the call stack: a recursion that goes deeper overflows the stack
\* and the process aborts.  The stack holds a frame for every node there is,
\* and one more, so only a traversal that runs round a cycle overflows it.
StackLimit(heap) == Len(heap) + 1

Overflow == [ok |-> FALSE, objs |-> <<>>]

RECURSIVE get_all_internal(_, _, _, _, _)
RECURSIVE get_all_children(_, _, _, _, _, _)

\* Object::get_all_internal, over the nodes `heap`: the node is pushed with
\* its transform composed with prev_xforms, then the children are visited in
\* list order, each given the composed transform.
get_all_internal(heap, self, objs, prev_xforms, depth) ==
    IF depth = 0 THEN Overflow
    ELSE LET current_xform == Mat4Mul(heap[self].xform, prev_xforms)
         IN get_all_children(heap, heap[self].children, 1,
                             Append(objs, <<self, current_xform>>),
                             current_xform, depth - 1)

\* The fault of walking the child list from its end.
get_all_children_reversed(heap, children, i, objs, current_xform, depth) ==
    IF i > Len(children) THEN [ok |-> TRUE, objs |-> objs]
    ELSE LET r == get_all_internal(heap, children[Len(children) + 1 - i], objs,
                                   current_xform, depth)
         IN IF r.ok
            THEN get_all_children(heap, children, i + 1, r.objs, current_xform, depth)
            ELSE Overflow

\* The loop `for child in &children` of get_all_internal, from the i-th child.
get_all_children(heap, children, i, objs, current_xform, depth) ==
    IF i > Len(children) THEN [ok |-> TRUE, objs |-> objs]
    ELSE LET r == get_all_internal(heap, children[i], objs, current_xform, depth)
         IN IF r.ok
            THEN get_all_children(heap, children, i + 1, r.objs, current_xform, depth)
            ELSE Overflow

\* Object::get_all: the traversal from an empty vector and the identity.
get_all(heap, self) == get_all_internal(heap, self, <<>>, IDENTITY, StackLimit(heap))

GetAll(self) ==
    /\ ~panicked
    /\ self \in Nodes
    /\ LET r == get_all(objects, self)
       IN /\ last' = [op |-> "get_all", self |-> self, ret |-> r.objs]
          /\ panicked' = ~r.ok
    /\ UNCHANGED <<objects, scene, calls, queue, gpu, materials, store, app>>

(* ------------------------------ physics ------------------------------- *)

\* A Vec3 is kept exactly as num / sqrt(den2): a sum of axes has den2 = 1,
\* and normalize() divides by the length.
Vec3(num) == [num |-> num, den2 |-> 1]

Add3(a, b) == <<a[1] + b[1], a[2] + b[2], a[3] + b[3]>>
Sub3(a, b) == <<a[1] - b[1], a[2] - b[2], a[3] - b[3]>>
Dot3(a, b) == a[1] * b[1] + a[2] * b[2] + a[3] * b[3]

X == <<1, 0, 0>>
Y == <<0, 1, 0>>
Z == <<0, 0, 1>>
ZERO == <<0, 0, 0>>

\* Vec3::element_sum of a sum of axes.
element_sum(num) == num[1] + num[2] + num[3]

\* Vec3::normalize of a sum of axes: the vector over its length.
normalize(num) == [num |-> num, den2 |-> Dot3(num, num)]

\* Vec3::length_squared.
LengthSquaredIsOne(v) == Dot3(v.num, v.num) = v.den2

\* UserInput::direction: the axes of the flags that are set are summed, and
\* the sum is normalized when the sum of its elements is positive.
direction(input) ==
    LET d1 == IF input.move_forward THEN Sub3(ZERO, Z) ELSE ZERO
        d2 == IF input.move_backward THEN Add3(d1, Z) ELSE d1
        d3 == IF input.move_left THEN Add3(d2, X) ELSE d2
        d4 == IF input.move_right THEN Sub3(d3, X) ELSE d3
        d5 == IF input.move_up THEN Sub3(d4, Y) ELSE d4
        d6 == IF input.move_down THEN Add3(d5, Y) ELSE d5
    IN IF element_sum(d6) > 0 THEN normalize(d6) ELSE Vec3(d6)

Direction(input) ==
    /\ ~panicked
    /\ last' = [op |-> "direction", input |-> input, ret |-> direction(input)]
    /\ UNCHANGED <<objects, scene, calls, queue, panicked, gpu, materials, store, app>>

(* ------------------------- Scene and Renderer -------------------------- *)

\* Object::get_all_cameras: the camera-payload entries of get_all, in order.
get_all_cameras(heap, self) ==
    LET r == get_all(heap, self)
    IN [ok |-> r.ok,
        objs |-> SelectSeq(r.objs, LAMBDA e : heap[e[1]].data.kind = "Camera")]

\* The fault of taking the last camera found.
last_camera(cameras) ==
    IF cameras = <<>> THEN None ELSE Some(cameras[Len(cameras)][1])

\* The camera of Scene::new: .first().map(|(camera, _)| camera).cloned().
first_camera(cameras) ==
    IF cameras = <<>> THEN None ELSE Some(cameras[1][1])

\* Scene::new: a fresh empty root takes objs as its children, and the first
\* camera of the flattened tree becomes the camera of the scene.
SceneNew(objs) ==
    /\ ~panicked
    /\ LET root == Len(objects) + 1
           built == with_children(Append(objects, ObjectInternal(Empty, IDENTITY)),
                                  root, objs)
           cameras == get_all_cameras(built, root)
       IN /\ objects' = built
          /\ panicked' = ~cameras.ok
          /\ scene' = IF cameras.ok
                      THEN Some([root |-> root, camera |-> first_camera(cameras.objs)])
                      ELSE scene
          /\ last' = [op |-> "Scene::new"]
    /\ UNCHANGED <<calls, queue, gpu, materials, store, app>>

\* Scene::set_camera: the node given becomes the camera of the scene.
set_camera(sc, camera) == [sc EXCEPT !.camera = Some(camera)]

SetCamera(camera) ==
    /\ ~panicked
    /\ scene.some
    /\ camera \in Nodes
    /\ scene' = Some(set_camera(scene.val, camera))
    /\ last' = [op |-> "set_camera"]
    /\ UNCHANGED <<objects, calls, queue, panicked, gpu, materials, store, app>>

\* Scene::get_camera: the camera payload of the camera node, if the scene has
\* one; the match panics on a node whose payload is not a camera.
Scene_get_camera(sc) ==
    IF ~sc.camera.some THEN [ok |-> TRUE, ret |-> None]
    ELSE IF objects[sc.camera.val].data.kind = "Camera"
         THEN [ok |-> TRUE, ret |-> Some(objects[sc.camera.val].data.id)]
         ELSE [ok |-> FALSE, ret |-> None]

GetCamera ==
    /\ ~panicked
    /\ scene.some
    /\ LET r == Scene_get_camera(scene.val)
       IN /\ last' = [op |-> "Scene::get_camera", ret |-> r.ret]
          /\ panicked' = ~r.ok
    /\ UNCHANGED <<objects, scene, calls, queue, gpu, materials, store, app>>

\* The bind groups, each named by the layout it was created with and by the
\* resource whose buffer or textures it holds.
GlobalsBindGroup == [layout |-> "Global uniform variables layout", of |-> 0]
CameraBindGroup(camera) == [layout |-> "Camera uniform variables layout", of |-> camera]
ModelBindGroup(model) == [layout |-> "Model uniform variables layout", of |-> model]
MaterialBindGroup(material) ==
    [layout |-> "Simple material textures bind group layout", of |-> material]

\* SimpleMaterial::get_pipeline_layout: the bind group layouts, by group index.
get_pipeline_layout ==
    << "Global uniform variables layout",
       "Camera uniform variables layout",
       "Model uniform variables layout",
       "Simple material textures bind group layout" >>

\* The fault of giving the model group 1 and the camera group 2.
as_gpu_exchanged(material, camera, model) ==
    [pipeline |-> "Simple texture pipeline",
     bind_groups |-> << <<0, GlobalsBindGroup>>,
                        <<1, ModelBindGroup(model)>>,
                        <<2, CameraBindGroup(camera)>>,
                        <<3, MaterialBindGroup(material)>> >>]

\* SimpleMaterial::as_gpu: the pipeline and the (index, bind group) pairs.
\* A model owns its material, so the material is named by its model.
as_gpu(material, camera, model) ==
    [pipeline |-> "Simple texture pipeline",
     bind_groups |-> << <<0, GlobalsBindGroup>>,
                        <<1, CameraBindGroup(camera)>>,
                        <<2, ModelBindGroup(model)>>,
                        <<3, MaterialBindGroup(material)>> >>]

\* GpuMaterial::setup: set_pipeline, then set_bind_group for every pair in
\* the order of the vector.
setup(gpu_material) ==
    <<[cmd |-> "set_pipeline", pipeline |-> gpu_material.pipeline]>> \o
    [i \in 1..Len(gpu_material.bind_groups) |->
        [cmd |-> "set_bind_group",
         index |-> gpu_material.bind_groups[i][1],
         bind_group |-> gpu_material.bind_groups[i][2]]]

\* Globals::update_globals: the elapsed time is written to the globals buffer.
update_globals == [cmd |-> "write_globals"]

\* Camera::update_camera_uniform: view is the inverse of xform (kept here as
\* the xform it is the inverse of), camera_pos its translation.
update_camera_uniform(camera, xform) ==
    [cmd |-> "write_camera", camera |-> camera,
     view_of |-> xform, camera_pos |-> translation_of(xform)]

\* Model::update_model_uniform: model is xform (normal, its inverse
\* transpose, is a function of the same matrix).
update_model_uniform(model, xform) ==
    [cmd |-> "write_model", model |-> model, model_matrix |-> xform]

\* Mesh::set_render_pass: the vertex and index data of the model are submitted.
set_render_pass(model) == [cmd |-> "draw", mesh |-> model]

\* DataStore::get_camera / get_model: the arena resolves a handle to the
\* resource inserted under it.
store_get(id) == Some(id)

\* The fault of writing the globals for every entry of the loop.
render_entry_with_globals(entry, q) ==
    LET data == objects[entry[1]].data
        xform == entry[2]
        g == Append(q, update_globals)
    IN CASE data.kind = "Model" ->
              IF ~scene.val.camera.some
                    \/ objects[scene.val.camera.val].data.kind # "Camera"
              THEN [ok |-> FALSE, queue |-> g]
              ELSE LET camera == store_get(objects[scene.val.camera.val].data.id).val
                       model == store_get(data.id).val
                   IN [ok |-> TRUE,
                       queue |-> Append(g, update_model_uniform(model, xform))
                                    \o setup(as_gpu(model, camera, model))
                                    \o <<set_render_pass(model)>>]
         [] data.kind = "Camera" ->
              [ok |-> TRUE,
               queue |-> Append(g, update_camera_uniform(store_get(data.id).val, xform))]
         [] OTHER -> [ok |-> TRUE, queue |-> g]

\* The fault of binding the camera found first in the tree, whatever camera
\* the scene has been given.
render_entry_discovered(entry, q) ==
    LET data == objects[entry[1]].data
        xform == entry[2]
        cameras == get_all_cameras(objects, scene.val.root).objs
    IN CASE data.kind = "Model" ->
              IF cameras = <<>>
              THEN [ok |-> FALSE, queue |-> q]
              ELSE LET camera == store_get(objects[cameras[1][1]].data.id).val
                       model == store_get(data.id).val
                   IN [ok |-> TRUE,
                       queue |-> Append(q, update_model_uniform(model, xform))
                                    \o setup(as_gpu(model, camera, model))
                                    \o <<set_render_pass(model)>>]
         [] data.kind = "Camera" ->
              [ok |-> TRUE,
               queue |-> Append(q, update_camera_uniform(store_get(data.id).val, xform))]
         [] OTHER -> [ok |-> TRUE, queue |-> q]

\* One turn of the loop of Renderer::render, for the entry (obj, xform).
render_entry(entry, q) ==
    LET data == objects[entry[1]].data
        xform == entry[2]
    IN CASE data.kind = "Model" ->
              \* scene.get_camera_object().unwrap(), token.try_as_camera().unwrap()
              IF ~scene.val.camera.some
                    \/ objects[scene.val.camera.val].data.kind # "Camera"
              THEN [ok |-> FALSE, queue |-> q]
              ELSE LET camera == store_get(objects[scene.val.camera.val].data.id).val
                       model == store_get(data.id).val
                   IN [ok |-> TRUE,
                       queue |-> Append(q, update_model_uniform(model, xform))
                                    \o setup(as_gpu(model, camera, model))
                                    \o <<set_render_pass(model)>>]
         [] data.kind = "Camera" ->
              [ok |-> TRUE,
               queue |-> Append(q, update_camera_uniform(store_get(data.id).val, xform))]
         [] OTHER -> [ok |-> TRUE, queue |-> q]

RECURSIVE render_loop(_, _, _)

\* The fault of walking the flattened sequence from its end.
render_loop_backwards(flat, i, q) ==
    IF i > Len(flat) THEN [ok |-> TRUE, queue |-> q]
    ELSE LET r == render_entry(flat[Len(flat) + 1 - i], q)
         IN IF r.ok THEN render_loop(flat, i + 1, r.queue) ELSE r

\* The loop over scene.root.get_all(), from the i-th entry; a panic ends it.
render_loop(flat, i, q) ==
    IF i > Len(flat) THEN [ok |-> TRUE, queue |-> q]
    ELSE LET r == render_entry(flat[i], q)
         IN IF r.ok THEN render_loop(flat, i + 1, r.queue) ELSE r

\* Renderer::render: the globals are written, then the flattened scene is
\* walked inside the render pass.
Render ==
    /\ ~panicked
    /\ scene.some
    /\ LET flat == get_all(objects, scene.val.root)
           r == IF flat.ok
                THEN render_loop(flat.objs, 1, <<update_globals>>)
                ELSE [ok |-> FALSE, queue |-> <<update_globals>>]
       IN /\ queue' = r.queue
          /\ panicked' = ~r.ok
    /\ last' = [op |-> "render"]
    /\ UNCHANGED <<objects, scene, calls, gpu, materials, store, app>>

(* -------------------------- PhysicsController -------------------------- *)

\* Object::get_parent_xform: the world transform of the parent the parent
\* reference resolves to, the identity when it resolves to none.
RECURSIVE get_parent_xform(_, _)
get_parent_xform(heap, self) ==
    IF ~heap[self].parent.some THEN IDENTITY
    ELSE LET parent == heap[self].parent.val
         IN Mat4Mul(get_parent_xform(heap, parent), heap[parent].xform)

\* Object::set_xform: the local transform is replaced.
set_xform(heap, self, xform) == [heap EXCEPT ![self].xform = xform]

\* The fault of falling back on the root of the scene when it has no camera.
update_with_fallback(sc, input) ==
    LET camera == IF sc.camera.some THEN sc.camera.val ELSE sc.root
        pos == translation_of(get_local_xform(camera))
        xform == Mat4Mul(Mat4Mul(Mat4Mul(from_rotation_y(-input.yaw),
                                         from_rotation_x(-input.pitch)),
                                 from_translation(pos)),
                         get_parent_xform(objects, camera))
    IN [moved |-> TRUE, objects |-> set_xform(objects, camera, xform)]

\* PhysicsController::update: with a camera node in the scene, its local
\* transform becomes R_y(-yaw * 0.0025) * R_x(-pitch * 0.0025) * T(pos) *
\* parent_xform, pos being the translation of the local transform; without
\* one nothing is done.  yaw and pitch are counted in pointer deltas of
\* (PI / 2) / 0.0025, so that the rotations are by whole quarter turns.
update(sc, input) ==
    IF sc.camera.some
    THEN LET camera == sc.camera.val
             pos == translation_of(get_local_xform(camera))
             xform == Mat4Mul(Mat4Mul(Mat4Mul(from_rotation_y(-input.yaw),
                                              from_rotation_x(-input.pitch)),
                                      from_translation(pos)),
                              get_parent_xform(objects, camera))
         IN [moved |-> TRUE, objects |-> set_xform(objects, camera, xform)]
    ELSE [moved |-> FALSE, objects |-> objects]

Update(input) ==
    /\ ~panicked
    /\ scene.some
    /\ LET r == update(scene.val, input)
       IN /\ objects' = r.objects
          /\ calls' = IF r.moved THEN Append(calls, [op |-> "set_xform"]) ELSE calls
    /\ last' = [op |-> "update", input |-> input]
    /\ UNCHANGED <<scene, queue, panicked, gpu, materials, store, app>>

(* ----------------------- Gpu and SimpleMaterial ------------------------ *)

\* Gpu::get_render_pipelines: the cache of render pipelines of the Gpu, a map
\* from names to pipelines.
get_render_pipelines == gpu.render_pipelines

\* SimpleMaterial::make_pipeline: a render pipeline is built; a pipeline is
\* named by the number of pipelines built on the Gpu up to and with it.
make_pipeline == gpu.made + 1

\* The fault of insert for or_insert_with: the pipeline is built and stored
\* whether or not the cache holds the key.
insert_always(cache, key) ==
    [cache |-> (key :> make_pipeline) @@ [k \in DOMAIN cache \ {key} |-> cache[k]],
     made |-> gpu.made + 1,
     value |-> make_pipeline]

\* .entry(key).or_insert_with(|| make_pipeline(..)).clone(): the closure runs
\* only when the cache has no entry under the key.
or_insert_with(cache, key) ==
    IF key \in DOMAIN cache
    THEN [cache |-> cache, made |-> gpu.made, value |-> cache[key]]
    ELSE [cache |-> (key :> make_pipeline) @@ cache,
          made |-> gpu.made + 1,
          value |-> make_pipeline]

\* SimpleMaterial::new: the texture is loaded, the pipeline is taken from the
\* cache under "Simple texture pipeline", and the material holds both.
SimpleMaterialNew(texture_path) ==
    /\ ~panicked
    /\ LET e == or_insert_with(get_render_pipelines, "Simple texture pipeline")
       IN /\ gpu' = [render_pipelines |-> e.cache, made |-> e.made]
          /\ materials' = Append(materials,
                                 [pipeline |-> e.value, texture |-> texture_path])
    /\ last' = [op |-> "SimpleMaterial::new"]
    /\ UNCHANGED <<objects, scene, calls, queue, panicked, store, app>>

(* ------------------------------ DataStore ------------------------------ *)

\* DataStore::insert_model: the model takes the next slot of the pool of
\* models; the handle names the pool and the slot.
insert_model(st, model) ==
    [store |-> [st EXCEPT !.models = Append(@, model)],
     handle |-> [pool |-> "Model", slot |-> Len(st.models) + 1]]

\* DataStore::insert_camera: the same, in the pool of cameras.
insert_camera(st, camera) ==
    [store |-> [st EXCEPT !.cameras = Append(@, camera)],
     handle |-> [pool |-> "Camera", slot |-> Len(st.cameras) + 1]]

\* The fault of resolving every handle to the newest slot of the pool.
get_model_newest(st, handle) ==
    IF handle.pool = "Model" /\ handle.slot \in DOMAIN st.models
    THEN Some(st.models[Len(st.models)])
    ELSE None

\* DataStore::get_model: the model in the slot of the handle; a handle of the
\* other pool or of no slot fails.
get_model(st, handle) ==
    IF handle.pool = "Model" /\ handle.slot \in DOMAIN st.models
    THEN Some(st.models[handle.slot])
    ELSE None

\* DataStore::get_camera: the same, in the pool of cameras.
get_camera(st, handle) ==
    IF handle.pool = "Camera" /\ handle.slot \in DOMAIN st.cameras
    THEN Some(st.cameras[handle.slot])
    ELSE None

\* The handles handed out so far, by pool.
Handles(pool) == {calls[i].ret : i \in {j \in 1..Len(calls) : calls[j].ret.pool = pool}}

\* Object::new(model, store): a model just constructed is inserted.  An object
\* is named by the number of objects constructed up to and with it, so two
\* objects are never the same one.
InsertModel ==
    /\ ~panicked
    /\ LET model == [kind |-> "Model", serial |-> Len(calls) + 1]
           r == insert_model(store, model)
       IN /\ store' = r.store
          /\ calls' = Append(calls, [op |-> "insert_model", arg |-> model, ret |-> r.handle])
          /\ last' = [op |-> "insert_model", ret |-> r.handle]
    /\ UNCHANGED <<objects, scene, queue, panicked, gpu, materials, app>>

\* Object::new(camera, store): a camera just constructed is inserted.
InsertCamera ==
    /\ ~panicked
    /\ LET camera == [kind |-> "Camera", serial |-> Len(calls) + 1]
           r == insert_camera(store, camera)
       IN /\ store' = r.store
          /\ calls' = Append(calls, [op |-> "insert_camera", arg |-> camera, ret |-> r.handle])
          /\ last' = [op |-> "insert_camera", ret |-> r.handle]
    /\ UNCHANGED <<objects, scene, queue, panicked, gpu, materials, app>>

\* store.get_model(id).unwrap(): a failed lookup panics.
StoreGetModel(handle) ==
    /\ ~panicked
    /\ LET r == get_model(store, handle)
       IN /\ last' = [op |-> "get_model", handle |-> handle, ret |-> r]
          /\ panicked' = ~r.some
    /\ UNCHANGED <<objects, scene, calls, queue, gpu, materials, store, app>>

\* store.get_camera(id).unwrap().
StoreGetCamera(handle) ==
    /\ ~panicked
    /\ LET r == get_camera(store, handle)
       IN /\ last' = [op |-> "get_camera", handle |-> handle, ret |-> r]
          /\ panicked' = ~r.some
    /\ UNCHANGED <<objects, scene, calls, queue, gpu, materials, store, app>>

(* --------------------------------- App --------------------------------- *)

\* App::resumed: the scene of main.rs is built on the nodes `heap` and handed
\* to Scene::new: the empty node of load_obj with its model below it, turned
\* by -2*PI/4 about x, and a camera, moved by (-2, 0, 6).
resumed(heap) ==
    LET loaded == Len(heap) + 1
        model == Len(heap) + 2
        camera == Len(heap) + 3
        root == Len(heap) + 4
        made == heap \o << ObjectInternal(Empty, AppRotation),
                           ObjectInternal(Model(model), IDENTITY),
                           ObjectInternal(Camera(camera), AppTranslation),
                           ObjectInternal(Empty, IDENTITY) >>
        built == with_children(add_child(made, loaded, model), root, <<loaded, camera>>)
        cameras == get_all_cameras(built, root)
    IN [objects |-> built,
        scene |-> [root |-> root, camera |-> first_camera(cameras.objs)]]

Resumed ==
    /\ ~panicked
    /\ ~app.renderer
    /\ LET r == resumed(objects)
       IN /\ objects' = r.objects
          /\ scene' = Some(r.scene)
    /\ app' = [app EXCEPT !.renderer = TRUE]
    /\ last' = [op |-> "resumed"]
    /\ calls' = Append(calls, [op |-> "resumed"])
    /\ UNCHANGED <<queue, panicked, gpu, materials, store>>

\* Bits of the significand of an f32.
F32Significand == 24

RECURSIVE f32_ulp(_, _)
\* The spacing of the f32 values around the magnitude m, from u upwards.
f32_ulp(m, u) == IF m < (2 ^ F32Significand) * u THEN u ELSE f32_ulp(m, 2 * u)

\* `x as f32` and the rounding of an f32 sum, for a whole x: the nearest
\* value with a significand of 24 bits, ties to even.
as_f32(x) ==
    LET m == IF x < 0 THEN -x ELSE x
        u == f32_ulp(m, 1)
        q == m \div u
        r == m % u
        n == IF 2 * r > u \/ (2 * r = u /\ q % 2 = 1) THEN (q + 1) * u ELSE q * u
    IN IF x < 0 THEN -n ELSE n

\* The fault of keeping the last delta only.
device_event_overwrites(a, delta) ==
    [a EXCEPT !.mouse_motion = <<as_f32(delta[1]), as_f32(delta[2])>>]

\* App::device_event, MouseMotion: the delta, as f32, is added to the
\* motion kept.
device_event(a, delta) ==
    [a EXCEPT !.mouse_motion = <<as_f32(@[1] + as_f32(delta[1])),
                                 as_f32(@[2] + as_f32(delta[2]))>>]

DeviceEvent(delta) ==
    /\ ~panicked
    /\ app' = device_event(app, delta)
    /\ last' = [op |-> "MouseMotion"]
    /\ calls' = Append(calls, [op |-> "MouseMotion", arg |-> delta])
    /\ UNCHANGED <<objects, scene, queue, panicked, gpu, materials, store>>

\* App::window_event, KeyboardInput: the event takes the place of the one kept.
keyboard_input(a, code) == [a EXCEPT !.key_event = Some(code)]

KeyboardInput(code) ==
    /\ ~panicked
    /\ app' = keyboard_input(app, code)
    /\ last' = [op |-> "KeyboardInput"]
    /\ calls' = Append(calls, [op |-> "KeyboardInput", arg |-> code])
    /\ UNCHANGED <<objects, scene, queue, panicked, gpu, materials, store>>

\* The flags of the match of handle_input on the key code.
FlagsOf(key_event) ==
    [move_forward |-> key_event = Some("KeyW"),
     move_backward |-> key_event = Some("KeyS"),
     move_left |-> key_event = Some("KeyA"),
     move_right |-> key_event = Some("KeyD"),
     move_up |-> key_event = Some("Space"),
     move_down |-> key_event = Some("KeyC")]

\* The fault of leaving the key event in place.
handle_input_keeps_key(a) ==
    [input |-> [move_forward |-> FlagsOf(a.key_event).move_forward,
                move_backward |-> FlagsOf(a.key_event).move_backward,
                move_left |-> FlagsOf(a.key_event).move_left,
                move_right |-> FlagsOf(a.key_event).move_right,
                move_up |-> FlagsOf(a.key_event).move_up,
                move_down |-> FlagsOf(a.key_event).move_down,
                yaw |-> a.mouse_motion[1],
                pitch |-> a.mouse_motion[2]],
     app |-> [a EXCEPT !.mouse_motion = <<0, 0>>]]

\* App::handle_input: the record gets the flag of the key event kept, if its
\* code is one of the six, and the motion kept as yaw and pitch; the key
\* event and the motion are cleared.
handle_input(a) ==
    [input |-> [move_forward |-> FlagsOf(a.key_event).move_forward,
                move_backward |-> FlagsOf(a.key_event).move_backward,
                move_left |-> FlagsOf(a.key_event).move_left,
                move_right |-> FlagsOf(a.key_event).move_right,
                move_up |-> FlagsOf(a.key_event).move_up,
                move_down |-> FlagsOf(a.key_event).move_down,
                yaw |-> a.mouse_motion[1],
                pitch |-> a.mouse_motion[2]],
     app |-> [a EXCEPT !.key_event = None, !.mouse_motion = <<0, 0>>]]

\* The fault of rendering before the movement step.
frame_render_first(sc, input) ==
    LET flat == get_all(objects, sc.root)
        r == IF flat.ok
             THEN render_loop(flat.objs, 1, <<update_globals>>)
             ELSE [ok |-> FALSE, queue |-> <<update_globals>>]
    IN [objects |-> update(sc, input).objects, queue |-> r.queue, ok |-> r.ok]

\* The body of `if let Some(renderer) .. && let Some(scene) ..` of
\* RedrawRequested: physics.update(scene, user_input), then
\* renderer.render(&scene).unwrap() on the nodes the movement step left.
frame(sc, input) ==
    LET moved == update(sc, input).objects
        flat == get_all(moved, sc.root)
        r == IF flat.ok
             THEN render_loop(flat.objs, 1, <<update_globals>>)
             ELSE [ok |-> FALSE, queue |-> <<update_globals>>]
    IN [objects |-> moved, queue |-> r.queue, ok |-> r.ok]

\* App::window_event, RedrawRequested: handle_input, then the frame if the
\* App has a renderer and a scene.
RedrawRequested ==
    /\ ~panicked
    /\ LET h == handle_input(app)
       IN /\ app' = h.app
          /\ IF app.renderer /\ scene.some
             THEN LET f == frame(scene.val, h.input)
                  IN /\ objects' = f.objects
                     /\ queue' = f.queue
                     /\ panicked' = ~f.ok
             ELSE UNCHANGED <<objects, queue, panicked>>
          /\ last' = [op |-> "RedrawRequested", input |-> h.input]
          /\ calls' = Append(calls, [op |-> "RedrawRequested", arg |-> h.input])
    /\ UNCHANGED <<scene, gpu, materials, store>>

(* ------------------------ the graph, seen as paths --------------------- *)

\* A path names a node by the positions taken in the child lists on the way
\* down from a start node; paths are followed for at most MaxObjects steps,
\* which is enough to meet every node and to run once round every cycle.
RECURSIVE PathsFrom(_, _)
PathsFrom(n, steps) ==
    IF steps = 0 THEN {<<>>}
    ELSE {<<>>} \cup
         UNION {{<<i>> \o p : p \in PathsFrom(objects[n].children[i], steps - 1)} :
                    i \in 1..Len(objects[n].children)}

Paths(n) == PathsFrom(n, Len(objects))

RECURSIVE NodeAt(_, _)
NodeAt(n, p) == IF p = <<>> THEN n ELSE NodeAt(objects[n].children[Head(p)], Tail(p))

\* The nodes of the subtree of n, n included.
Subtree(n) == {NodeAt(n, p) : p \in Paths(n)}

\* The proper descendants of n.
Descendants(n) == {NodeAt(n, p) : p \in Paths(n) \ {<<>>}}

\* What is below n is a tree: no node is met along two different paths.
IsTree(n) == \A p, q \in Paths(n) : NodeAt(n, p) = NodeAt(n, q) => p = q

\* The positions of node n in a flattened sequence.
Positions(flat, n) == {i \in 1..Len(flat) : flat[i][1] = n}

(* --------------------- specification: the node graph ------------------- *)

RECURSIVE SumLen(_, _)
SumLen(objs, n) == IF n = 0 THEN 0 ELSE Len(objs[n].children) + SumLen(objs, n - 1)

\* The number of parent-to-child entries of the graph.
Edges(objs) == SumLen(objs, Len(objs))

\* A child list of self may grow by one entry within the bounds.
RoomFor(self) ==
    Len(objects[self].children) < MaxChildren /\ Edges(objects) < MaxEdges

\* Any handle may be given to any call: handles are cloned at will.
NextGraph(xforms, maxObjects) ==
    \/ \E xform \in xforms : Len(objects) < maxObjects /\ New("Empty", xform)
    \/ \E self \in Nodes, children \in SeqsUpTo(Nodes, MaxChildren) :
          /\ Edges(objects) - Len(objects[self].children) + Len(children) <= MaxEdges
          /\ WithChildren(self, children)
    \/ \E self \in Nodes, obj \in Nodes : RoomFor(self) /\ AddChild(self, obj)
    \/ \E self \in Nodes : GetAll(self)

\* The shape of the graph alone: every node is empty, at the identity.
NextTree == NextGraph({IDENTITY}, MaxObjects)

SpecTree == Init /\ [][NextTree]_vars

\* The graph with transforms that do not commute.
NextWorld == NextGraph({AppRotation, AppTranslation}, MaxWorldObjects)

SpecWorld == Init /\ [][NextWorld]_vars

(* ------------------- specification: local transforms ------------------ *)

Translations == {<<-2, 0, 6>>, <<1, 0, 0>>}
Scales == {<<2, 1, 1>>}
\* Rotations in quarter turns; -1 is the -2*PI/4 of main.rs.
Rotations == {-1}

NextXform ==
    \/ Len(objects) < MaxXformObjects /\ New("Empty", IDENTITY)
    \/ /\ Len(calls) < MaxMutations
       /\ \E self \in Nodes :
            \/ \E xform \in {IDENTITY, AppRotation} : Set(self, xform)
            \/ \E v \in Translations : Translate(self, v)
            \/ \E q \in Rotations : RotateX(self, q)
            \/ \E q \in Rotations : RotateY(self, q)
            \/ \E q \in Rotations : RotateZ(self, q)
            \/ \E v \in Scales : Scale(self, v)
            \/ Reset(self)

SpecXform == Init /\ [][NextXform]_vars

(* ------------------------ specification: frames ------------------------ *)

\* The nodes the application makes (main.rs, load_obj, Camera::new): the
\* empty parent of a loaded model, turned; models at the identity; cameras,
\* moved.
Payloads ==
    { <<"Empty", AppRotation>>, <<"Model", IDENTITY>>, <<"Camera", AppTranslation>> }

\* Node c has been moved into no child list yet.
Unowned(c) == \A p \in Nodes : \A i \in 1..Len(objects[p].children) : objects[p].children[i] # c

\* Every handle is moved into the graph once, as main.rs and load_obj do:
\* a node is attached while no list holds it, and never below itself.
NextRender ==
    \/ \E payload \in Payloads :
          Len(objects) < MaxSceneObjects /\ New(payload[1], payload[2])
    \/ \E self \in Nodes, obj \in Nodes :
          /\ RoomFor(self)
          /\ Unowned(obj) /\ self \notin Subtree(obj)
          /\ ~(scene.some /\ scene.val.root = obj)
          /\ AddChild(self, obj)
    \/ \E objs \in SeqsUpTo(Nodes, MaxChildren) :
          /\ ~scene.some
          /\ Len(objects) < MaxSceneObjects
          /\ Edges(objects) + Len(objs) <= MaxEdges
          /\ \A i \in 1..Len(objs) :
                Unowned(objs[i]) /\ \A j \in 1..Len(objs) : objs[i] = objs[j] => i = j
          /\ SceneNew(objs)
    \/ Render

SpecRender == Init /\ [][NextRender]_vars

(* ------------------------ specification: input ------------------------- *)

\* Pointer deltas of an input record.
Deltas == {0, 1}

UserInput ==
    [move_forward : BOOLEAN, move_backward : BOOLEAN, move_left : BOOLEAN,
     move_right : BOOLEAN, move_up : BOOLEAN, move_down : BOOLEAN,
     yaw : Deltas, pitch : Deltas]

NextDirection == \E input \in UserInput : Direction(input)

SpecDirection == Init /\ [][NextDirection]_vars

(* ------------------ specification: the camera of a scene --------------- *)

\* Nodes of a run that selects cameras, the root of the scene included.
MaxCameraObjects == 4
\* Entries in all child lists together in such a run.
MaxCameraEdges == 3

\* Models at the identity and cameras, moved.
CameraPayloads == { <<"Model", IDENTITY>>, <<"Camera", AppTranslation>> }

\* The tree is assembled and handed to Scene::new, as main.rs does, a node
\* being attached as soon as it is made, as load_obj does, or kept for
\* Scene::new; the camera is set before the first frame of the scene; then
\* frames are rendered and the camera is read.  set_camera is given any
\* handle.
NextCamera ==
    \/ \E payload \in CameraPayloads :
          /\ ~scene.some
          /\ Len(objects) < MaxCameraObjects - 1
          /\ New(payload[1], payload[2])
    \/ \E self \in Nodes, obj \in Nodes :
          /\ ~scene.some
          /\ obj = Len(objects)
          /\ Len(objects[self].children) < MaxChildren
          /\ Edges(objects) < MaxCameraEdges
          /\ Unowned(obj) /\ self \notin Subtree(obj)
          /\ AddChild(self, obj)
    \/ \E objs \in SeqsUpTo(Nodes, MaxChildren) :
          /\ ~scene.some
          /\ Len(objects) < MaxCameraObjects
          /\ Edges(objects) + Len(objs) <= MaxCameraEdges
          /\ \A i \in 1..Len(objs) :
                Unowned(objs[i]) /\ \A j \in 1..Len(objs) : objs[i] = objs[j] => i = j
          /\ SceneNew(objs)
    \/ \E camera \in Nodes : queue = <<>> /\ SetCamera(camera)
    \/ GetCamera
    \/ Render

SpecCamera == Init /\ [][NextCamera]_vars

(* --------------------- specification: the movement step ---------------- *)

\* Nodes of a run that moves the camera, the root of the scene included.
MaxPhysicsObjects == 3
\* Movement steps that write a transform in a run.
MaxUpdates == 1

\* Records of handle_input: no key, KeyW or KeyA, with the pointer deltas of
\* the frame.
FrameInputs ==
    {input \in UserInput :
        /\ ~(input.move_forward /\ input.move_left)
        /\ ~input.move_backward /\ ~input.move_right
        /\ ~input.move_up /\ ~input.move_down}

\* The nodes of the scene: the empty parent of a loaded model, turned, and
\* cameras, moved.
PhysicsPayloads == { <<"Empty", AppRotation>>, <<"Camera", AppTranslation>> }

\* The tree is assembled and handed to Scene::new, the camera may be set to
\* any handle, and then the movement step runs frame after frame.
NextPhysics ==
    \/ \E payload \in PhysicsPayloads :
          /\ ~scene.some
          /\ Len(objects) < MaxPhysicsObjects - 1
          /\ New(payload[1], payload[2])
    \/ \E self \in Nodes, obj \in Nodes :
          /\ ~scene.some
          /\ Len(objects[self].children) < MaxChildren
          /\ Unowned(obj) /\ self \notin Subtree(obj)
          /\ AddChild(self, obj)
    \/ \E objs \in SeqsUpTo(Nodes, MaxChildren) :
          /\ ~scene.some
          /\ \A i \in 1..Len(objs) :
                Unowned(objs[i]) /\ \A j \in 1..Len(objs) : objs[i] = objs[j] => i = j
          /\ SceneNew(objs)
    \/ \E camera \in Nodes : calls = <<>> /\ SetCamera(camera)
    \/ \E input \in FrameInputs : Len(calls) < MaxUpdates /\ Update(input)

SpecPhysics == Init /\ [][NextPhysics]_vars

(* ---------------------- specification: the event loop ------------------ *)

\* Events handled in a run.
MaxEvents == 4

\* Pointer deltas of a MouseMotion event, in the unit of yaw and pitch.
MouseDeltas == {<<1, 0>>, <<-1, 1>>}

\* Physical keys: the six of handle_input, another key, and a key without
\* a code.
KeyCodes == {"KeyW", "KeyA", "KeyS", "KeyD", "Space", "KeyC", "Escape", "Unidentified"}

\* The events of the window, in any order; resumed comes once.
NextApp ==
    \/ Len(calls) < MaxEvents /\ Resumed
    \/ \E delta \in MouseDeltas : Len(calls) < MaxEvents /\ DeviceEvent(delta)
    \/ \E code \in KeyCodes : Len(calls) < MaxEvents /\ KeyboardInput(code)
    \/ Len(calls) < MaxEvents /\ RedrawRequested

SpecApp == Init /\ [][NextApp]_vars

(* ---------------------- specification: resources ---------------------- *)

\* SimpleMaterial::new calls in a run.
MaxMaterials == 3
\* Objects inserted in the DataStore in a run.
MaxResources == 3

\* Texture files: the fallback of load_obj and the texture of the model.
Textures == {"src/res/star.png", "src/res/models/sus/sus.png"}

NextResources ==
    \/ \E texture_path \in Textures :
          Len(materials) < MaxMaterials /\ SimpleMaterialNew(texture_path)
    \/ Len(calls) < MaxResources /\ InsertModel
    \/ Len(calls) < MaxResources /\ InsertCamera
    \/ \E handle \in Handles("Model") : StoreGetModel(handle)
    \/ \E handle \in Handles("Camera") : StoreGetCamera(handle)

SpecResources == Init /\ [][NextResources]_vars

(* -------------------------------- C1 ---------------------------------- *)

\* C1: get_all on the root of a tree returns every node of the tree exactly
\* once, every node before all of its descendants, and the subtrees of a
\* node's children one after another in the order of the child list.
C1_FlattenIsPreOrder ==
    (last.op = "get_all" /\ IsTree(last.self)) =>
        LET flat == last.ret
            pos(n) == CHOOSE i \in Positions(flat, n) : TRUE
        IN /\ ~panicked
           /\ \A n \in Subtree(last.self) : Cardinality(Positions(flat, n)) = 1
           /\ \A i \in 1..Len(flat) : flat[i][1] \in Subtree(last.self)
           /\ \A n \in Subtree(last.self) : \A d \in Descendants(n) : pos(n) < pos(d)
           /\ \A n \in Subtree(last.self) :
                \A i, j \in 1..Len(objects[n].children) :
                    i < j =>
                        \A a \in Subtree(objects[n].children[i]),
                           b \in Subtree(objects[n].children[j]) : pos(a) < pos(b)

\* A root with two children, each a node of its own, has been flattened.
C1_Witness ==
    /\ last.op = "get_all"
    /\ IsTree(last.self)
    /\ Len(last.ret) = 3
    /\ Len(objects[last.self].children) = 2

(* -------------------------------- C8 ---------------------------------- *)

Parents(c) == {p \in Nodes : \E i \in 1..Len(objects[p].children) : objects[p].children[i] = c}

\* C8: after any add_child / with_children calls the node graph is a tree:
\* no node is a child of two parents, none is twice in a child list, none is
\* its own ancestor.
C8_GraphIsTree ==
    \A c \in Nodes :
        /\ Cardinality(Parents(c)) <= 1
        /\ \A p \in Nodes :
              Cardinality({i \in 1..Len(objects[p].children) : objects[p].children[i] = c}) <= 1
        /\ c \notin Descendants(c)

(* -------------------------------- C9 ---------------------------------- *)

\* C9: get_all returns, and the sequence it returns has as many entries as
\* the subtree has nodes.
C9_FlattenTerminates ==
    last.op = "get_all" =>
        /\ ~panicked
        /\ Len(last.ret) = Cardinality(Subtree(last.self))

(* -------------------------------- C2 ---------------------------------- *)

\* The product L(a0) * L(a1) * ... * L(n) along path p from node n0.
RECURSIVE RootToNode(_, _)
RootToNode(n0, p) ==
    IF p = <<>> THEN objects[n0].xform
    ELSE Mat4Mul(objects[n0].xform, RootToNode(objects[n0].children[Head(p)], Tail(p)))

\* C2: every node returned by get_all on a tree is paired with the product of
\* the local transforms taken from the root down to the node.
C2_WorldIsRootToNode ==
    (last.op = "get_all" /\ IsTree(last.self) /\ ~panicked) =>
        \A i \in 1..Len(last.ret) :
            \E p \in Paths(last.self) :
                /\ NodeAt(last.self, p) = last.ret[i][1]
                /\ last.ret[i][2] = RootToNode(last.self, p)

(* -------------------------------- C7 ---------------------------------- *)

\* C7: after set(identity) the local transform reads as the identity, and
\* after reset() it is the identity whatever calls came before.
C7_SetAndResetRoundTrip ==
    /\ (last.op = "set" /\ calls[Len(calls)].arg = IDENTITY) =>
            get_local_xform(last.self) = IDENTITY
    /\ last.op = "reset" => get_local_xform(last.self) = IDENTITY

\* reset() has just followed a translate on a node that an earlier call had
\* already moved off the identity.
C7_Witness ==
    /\ Len(calls) = 3
    /\ calls[1].op = "rotate_x"
    /\ calls[2].op = "translate"
    /\ calls[3].op = "reset"
    /\ calls[1].self = calls[3].self /\ calls[2].self = calls[3].self
    /\ last.op = "reset"

(* -------------------------------- C3 ---------------------------------- *)

\* a comes before b in the depth-first pre-order of the tree below root: b
\* is below a, or they lie below two children of one node and a's is the
\* earlier in the child list.
Precedes(root, a, b) ==
    \/ b \in Descendants(a)
    \/ \E n \in Subtree(root) :
         \E i, j \in 1..Len(objects[n].children) :
            /\ i < j
            /\ a \in Subtree(objects[n].children[i])
            /\ b \in Subtree(objects[n].children[j])

CamerasBelow(root) == {n \in Subtree(root) : objects[n].data.kind = "Camera"}

\* C3: Scene::new leaves the scene without a camera when the tree has no
\* camera node, and otherwise with the camera node that comes first in
\* depth-first pre-order.
C3_ActiveCameraIsFirst ==
    (last.op = "Scene::new" /\ ~panicked) =>
        LET root == scene.val.root
            active == scene.val.camera
        IN IF CamerasBelow(root) = {}
           THEN ~active.some
           ELSE /\ active.some
                /\ active.val \in CamerasBelow(root)
                /\ \A c \in CamerasBelow(root) \ {active.val} :
                        Precedes(root, active.val, c)

\* A scene has just been made of a tree that holds two cameras.
C3_Witness ==
    /\ last.op = "Scene::new"
    /\ ~panicked
    /\ Cardinality(CamerasBelow(scene.val.root)) = 2
    /\ scene.val.camera.some

(* -------------------------------- C4 ---------------------------------- *)

\* C4: a frame of a scene without camera whose tree holds a model completes
\* without failure and binds no camera bind group.
C4_MissingCameraSkipsBinding ==
    (/\ last.op = "render"
     /\ ~scene.val.camera.some
     /\ \E n \in Subtree(scene.val.root) : objects[n].data.kind = "Model") =>
        /\ ~panicked
        /\ \A i \in 1..Len(queue) :
              queue[i].cmd = "set_bind_group" => queue[i].index # 1

(* -------------------------------- C6 ---------------------------------- *)

\* The scene is Scene::new([model at the identity, camera moved by (-2, 0, 6)]).
ModelAndCameraScene ==
    /\ scene.some
    /\ LET root == scene.val.root
           children == objects[root].children
       IN /\ Len(children) = 2
          /\ objects[root].xform = IDENTITY
          /\ objects[children[1]].data.kind = "Model"
          /\ objects[children[1]].xform = IDENTITY
          /\ objects[children[1]].children = <<>>
          /\ objects[children[2]].data.kind = "Camera"
          /\ objects[children[2]].xform = from_translation(<<-2, 0, 6>>)
          /\ objects[children[2]].children = <<>>
          /\ scene.val.camera = Some(children[2])

Writes(cmd) == {i \in 1..Len(queue) : queue[i].cmd = cmd}

\* C6: one frame of that scene writes exactly one camera uniform, with
\* camera_pos (-2, 0, 6), and exactly one model uniform, with the identity
\* as model matrix.
C6_ModelAndCameraFrame ==
    (last.op = "render" /\ ModelAndCameraScene) =>
        /\ ~panicked
        /\ Cardinality(Writes("write_camera")) = 1
        /\ \A i \in Writes("write_camera") : queue[i].camera_pos = <<-2, 0, 6>>
        /\ Cardinality(Writes("write_model")) = 1
        /\ \A i \in Writes("write_model") : queue[i].model_matrix = IDENTITY

\* A frame of that scene has been rendered.
C6_Witness == last.op = "render" /\ ModelAndCameraScene /\ Len(queue) > 1

(* -------------------------------- C10 --------------------------------- *)

\* C10: every bind-and-draw of a frame sets the pipeline and then exactly the
\* four groups 0, 1, 2, 3 in this order: globals, the active camera, the model
\* whose uniform was just written, that model's material; each group's layout
\* is the one the pipeline layout declares at its index.
C10_BindGroupOrder ==
    last.op = "render" =>
        /\ \A i \in Writes("set_pipeline") :
              /\ i > 1 /\ queue[i - 1].cmd = "write_model"
              /\ i + 4 <= Len(queue)
              /\ \A k \in 0..3 :
                    /\ queue[i + 1 + k].cmd = "set_bind_group"
                    /\ queue[i + 1 + k].index = k
                    /\ queue[i + 1 + k].bind_group.layout = get_pipeline_layout[k + 1]
              /\ queue[i + 1].bind_group = GlobalsBindGroup
              /\ queue[i + 2].bind_group =
                    CameraBindGroup(objects[scene.val.camera.val].data.id)
              /\ queue[i + 3].bind_group = ModelBindGroup(queue[i - 1].model)
              /\ queue[i + 4].bind_group = MaterialBindGroup(queue[i - 1].model)
        /\ \A j \in Writes("set_bind_group") :
              \E i \in Writes("set_pipeline") : j \in (i + 1)..(i + 4)

\* A frame has bound and drawn a model.
C10_Witness == last.op = "render" /\ ~panicked /\ Writes("set_pipeline") # {}

(* -------------------------------- C5 ---------------------------------- *)

FlagsSet(input) ==
    Cardinality({f \in {"move_forward", "move_backward", "move_left",
                        "move_right", "move_up", "move_down"} : input[f]})

\* The sum of the axes of the flags that are set.
AxisSum(input) ==
    << (IF input.move_left THEN 1 ELSE 0) - (IF input.move_right THEN 1 ELSE 0),
       (IF input.move_down THEN 1 ELSE 0) - (IF input.move_up THEN 1 ELSE 0),
       (IF input.move_backward THEN 1 ELSE 0) - (IF input.move_forward THEN 1 ELSE 0) >>

\* C5: direction() with only move_forward is the forward axis unscaled, and
\* with more than one flag set and a non-zero sum it has squared length 1.
C5_DirectionIsUnit ==
    last.op = "direction" =>
        /\ (FlagsSet(last.input) = 1 /\ last.input.move_forward) =>
                last.ret = Vec3(<<0, 0, -1>>)
        /\ (FlagsSet(last.input) > 1 /\ AxisSum(last.input) # ZERO) =>
                LengthSquaredIsOne(last.ret)

(* -------------------------------- C11 --------------------------------- *)

\* C11: over any number of SimpleMaterial::new calls on one Gpu the pipeline
\* is built at most once: after the first call the cache holds it under
\* "Simple texture pipeline", no later call builds another, and every
\* material holds the pipeline of the cache.
C11_PipelineBuiltOnce ==
    /\ gpu.made <= 1
    /\ materials # <<>> =>
          /\ gpu.made = 1
          /\ DOMAIN gpu.render_pipelines = {"Simple texture pipeline"}
          /\ \A i \in 1..Len(materials) :
                materials[i].pipeline = gpu.render_pipelines["Simple texture pipeline"]

\* Three materials have been constructed, of two textures.
C11_Witness ==
    /\ Len(materials) = 3
    /\ materials[1].texture # materials[3].texture

(* -------------------------------- C12 --------------------------------- *)

\* The lookup of a handle in the pool it names.
Lookup(handle) ==
    IF handle.pool = "Model" THEN get_model(store, handle) ELSE get_camera(store, handle)

\* C12: the handles of the objects inserted are pairwise distinct; each of
\* them resolves, now and after every later insertion, to the object that
\* was inserted under it; and a lookup returns that object.
C12_HandlesResolve ==
    /\ \A i, j \in 1..Len(calls) : calls[i].ret = calls[j].ret => i = j
    /\ \A i \in 1..Len(calls) : Lookup(calls[i].ret) = Some(calls[i].arg)
    /\ last.op \in {"get_model", "get_camera"} =>
          /\ ~panicked
          /\ \E i \in 1..Len(calls) :
                calls[i].ret = last.handle /\ last.ret = Some(calls[i].arg)

\* Two models and a camera are in the store, and the first model has been
\* looked up after the last insertion.
C12_Witness ==
    /\ Len(store.models) = 2 /\ Len(store.cameras) = 1
    /\ last.op = "get_model"
    /\ last.handle = [pool |-> "Model", slot |-> 1]

(* -------------------------------- C13 --------------------------------- *)

\* C13: get_camera never fails; it returns absence when the scene has no
\* camera, and otherwise the camera payload of the node selected (the one
\* given to the last set_camera, or the one Scene::new found).
C13_GetCameraNeverFails ==
    last.op = "Scene::get_camera" =>
        /\ ~panicked
        /\ IF ~scene.val.camera.some
           THEN last.ret = None
           ELSE /\ objects[scene.val.camera.val].data.kind = "Camera"
                /\ last.ret = Some(objects[scene.val.camera.val].data.id)

(* -------------------------------- C17 --------------------------------- *)

\* The camera writes of the frame for the camera of node c.
CameraWrites(c) == {i \in Writes("write_camera") : queue[i].camera = objects[c].data.id}

\* C17: whatever cameras the tree holds and wherever the models sit, every
\* draw of a frame binds at group 1 the bind group of the camera of the
\* scene; the bind group of another camera of the tree is bound to no draw,
\* and that camera has only its uniform written, once in a frame that
\* completes.
C17_DrawsBindActiveCamera ==
    last.op = "render" =>
        LET root == scene.val.root
            active == scene.val.camera
        IN /\ \A i \in Writes("set_bind_group") :
                 queue[i].index = 1 =>
                    /\ active.some
                    /\ objects[active.val].data.kind = "Camera"
                    /\ queue[i].bind_group = CameraBindGroup(objects[active.val].data.id)
           /\ \A c \in CamerasBelow(root) :
                 (~active.some \/ c # active.val) =>
                    /\ \A i \in Writes("set_bind_group") :
                          queue[i].bind_group # CameraBindGroup(objects[c].data.id)
                    /\ ~panicked => Cardinality(CameraWrites(c)) = 1

\* A frame of a tree with two cameras has drawn a model, and the camera of
\* the scene is the second of the two in pre-order.
C17_Witness ==
    /\ last.op = "render"
    /\ ~panicked
    /\ Writes("draw") # {}
    /\ Cardinality(CamerasBelow(scene.val.root)) = 2
    /\ scene.val.camera.some
    /\ scene.val.camera.val \in CamerasBelow(scene.val.root)
    /\ \E c \in CamerasBelow(scene.val.root) :
          Precedes(scene.val.root, c, scene.val.camera.val)

(* -------------------------------- C14 --------------------------------- *)

\* The elementary matrix of a call of translate, rotate_x, rotate_y,
\* rotate_z or scale.
Elementary(call) ==
    CASE call.op = "translate" -> from_translation(call.arg)
      [] call.op = "rotate_x" -> from_rotation_x(call.arg)
      [] call.op = "rotate_y" -> from_rotation_y(call.arg)
      [] call.op = "rotate_z" -> from_rotation_z(call.arg)
      [] call.op = "scale" -> from_scale(call.arg)

\* The product E1 * E2 * ... of the calls on node n among the first k calls,
\* from the matrix of the last set or reset of n among them, or from the
\* identity of a new node.
RECURSIVE Composed(_, _)
Composed(n, k) ==
    IF k = 0 THEN IDENTITY
    ELSE IF calls[k].self # n THEN Composed(n, k - 1)
    ELSE CASE calls[k].op = "set" -> calls[k].arg
           [] calls[k].op = "reset" -> IDENTITY
           [] OTHER -> Mat4Mul(Composed(n, k - 1), Elementary(calls[k]))

\* C14: every mutator multiplies the local transform by its elementary
\* matrix from the right, so the transform of a node is the product of the
\* matrices of its calls in call order; children, payload and parent of the
\* node stay as Object::new left them.
C14_MutatorsRightMultiply ==
    \A n \in Nodes :
        /\ objects[n].xform = Composed(n, Len(calls))
        /\ objects[n].children = <<>>
        /\ objects[n].data = Empty
        /\ objects[n].parent = None

\* A new node has been translated, then turned, then scaled; the product in
\* the other order is another matrix.
C14_Witness ==
    /\ Len(calls) = 3
    /\ calls[1].op = "translate" /\ calls[2].op = "rotate_x" /\ calls[3].op = "scale"
    /\ calls[1].self = calls[2].self /\ calls[2].self = calls[3].self
    /\ objects[calls[1].self].xform #
          Mat4Mul(Elementary(calls[3]), Mat4Mul(Elementary(calls[2]), Elementary(calls[1])))

(* -------------------------------- C15 --------------------------------- *)

\* C15: every frame writes the globals exactly once, and that write comes
\* first: before every camera write, model write and draw of the frame,
\* whatever the scene holds.
C15_GlobalsOncePerFrame ==
    last.op = "render" =>
        /\ Writes("write_globals") = {1}
        /\ \A i \in 1..Len(queue) : queue[i].cmd # "write_globals" => i > 1

\* A frame has written a camera and drawn a model.
C15_Witness ==
    /\ last.op = "render"
    /\ Writes("write_camera") # {}
    /\ Writes("draw") # {}
    /\ Len(queue) >= 9

(* -------------------------------- C16 --------------------------------- *)

\* The node whose resource a write or a draw of the frame names; a resource
\* has the number of the node made with it.
NodeOf(i) ==
    CASE queue[i].cmd = "write_model" -> queue[i].model
      [] queue[i].cmd = "write_camera" -> queue[i].camera
      [] queue[i].cmd = "draw" -> queue[i].mesh

\* The transform the flattened sequence pairs with node n.
WorldOf(flat, n) == flat[CHOOSE i \in Positions(flat, n) : TRUE][2]

\* C16: a frame handles the entries one after another in pre-order; the
\* steps of a model entry are, with nothing between them, the write of its
\* uniform from its world transform, the pipeline and the four bind groups,
\* and the draw of its mesh; in a frame that completes every camera is
\* written and every model drawn once, so the draws are the models in
\* pre-order.
C16_EntriesInPreOrder ==
    last.op = "render" =>
        LET root == scene.val.root
            flat == get_all(objects, root).objs
            heads == Writes("write_model") \cup Writes("write_camera")
        IN /\ \A i, j \in heads :
                 i < j => Precedes(root, NodeOf(i), NodeOf(j))
           /\ \A i \in heads : queue[i][IF queue[i].cmd = "write_model"
                                        THEN "model_matrix" ELSE "view_of"]
                                  = WorldOf(flat, NodeOf(i))
           /\ \A i \in Writes("write_model") :
                 /\ i + 6 <= Len(queue)
                 /\ queue[i + 1].cmd = "set_pipeline"
                 /\ \A k \in 2..5 : queue[i + k].cmd = "set_bind_group"
                 /\ queue[i + 6] = set_render_pass(queue[i].model)
           /\ \A i \in 2..Len(queue) :
                 queue[i].cmd \notin {"write_model", "write_camera"} =>
                    \E h \in Writes("write_model") : i \in (h + 1)..(h + 6)
           /\ ~panicked =>
                 \A n \in Subtree(root) :
                    /\ objects[n].data.kind = "Model" =>
                          Cardinality({i \in Writes("draw") : NodeOf(i) = n}) = 1
                    /\ objects[n].data.kind = "Camera" =>
                          Cardinality({i \in Writes("write_camera") : NodeOf(i) = n}) = 1

\* A frame has drawn two models, one of them below the other, and written a
\* camera.
C16_Witness ==
    /\ last.op = "render"
    /\ ~panicked
    /\ Cardinality(Writes("draw")) = 2
    /\ Writes("write_camera") # {}
    /\ \E i, j \in Writes("draw") : NodeOf(j) \in Descendants(NodeOf(i))

(* -------------------------------- C18 --------------------------------- *)

\* Every node is in at most one child list, once, and below itself nowhere.
Forest ==
    \A c \in Nodes :
        /\ Cardinality({<<p, i>> \in Nodes \X (1..MaxChildren) :
                            i <= Len(objects[p].children) /\ objects[p].children[i] = c}) <= 1
        /\ c \notin Descendants(c)

\* C18: in a tree, the parent reference of a node resolves to p exactly when
\* the node is in the child list of p, and it is empty for a node that was
\* never attached.
C18_ParentResolves ==
    Forest =>
        \A c \in Nodes :
            /\ Parents(c) = {} => objects[c].parent = None
            /\ \A p \in Nodes : p \in Parents(c) <=> objects[c].parent = Some(p)

(* -------------------------------- C19 --------------------------------- *)

\* The cross product of two vectors: zero when they are parallel.
Cross3(a, b) ==
    << a[2] * b[3] - a[3] * b[2], a[3] * b[1] - a[1] * b[3], a[1] * b[2] - a[2] * b[1] >>

\* C19: a movement step with yaw = pitch = 0 moves the translation of the
\* local transform of the camera node along direction(), by a positive
\* multiple of it, when direction() is not zero; with no flag set it leaves
\* the local transform as it was.
C19_UpdateMovesAlongDirection ==
    [][(last'.op = "update" /\ scene.val.camera.some
            /\ last'.input.yaw = 0 /\ last'.input.pitch = 0) =>
          LET camera == scene.val.camera.val
              d == direction(last'.input).num
              delta == Sub3(translation_of(objects'[camera].xform),
                            translation_of(objects[camera].xform))
          IN IF d = ZERO
             THEN objects'[camera].xform = objects[camera].xform
             ELSE delta # ZERO /\ Cross3(delta, d) = ZERO /\ Dot3(delta, d) > 0]_vars

(* -------------------------------- C20 --------------------------------- *)

\* C20: a movement step does not fail and leaves the camera selection of the
\* scene alone; without a camera in the scene it changes no node, and with
\* one it changes nothing but the local transform of the camera node.
C20_UpdateTouchesCameraOnly ==
    [][last'.op = "update" =>
          /\ ~panicked'
          /\ scene' = scene
          /\ DOMAIN objects' = DOMAIN objects
          /\ \A n \in Nodes :
                /\ objects'[n].children = objects[n].children
                /\ objects'[n].data = objects[n].data
                /\ objects'[n].parent = objects[n].parent
                /\ (~scene.val.camera.some \/ n # scene.val.camera.val) =>
                        objects'[n].xform = objects[n].xform]_vars

\* A movement step with a pointer delta has turned the camera of a scene
\* that holds another node with a transform of its own.
C20_Witness ==
    /\ last.op = "update"
    /\ last.input.yaw = 1
    /\ scene.val.camera.some
    /\ objects[scene.val.camera.val].data.kind = "Camera"
    /\ objects[scene.val.camera.val].xform # AppTranslation
    /\ \E n \in Nodes : n # scene.val.camera.val /\ objects[n].xform = AppRotation

(* ------------------------------ C21 ------------------------------------ *)

\* The index of the last RedrawRequested among the first n events, 0 if none.
LastRedraw(n) ==
    LET S == {i \in 1..n : calls[i].op = "RedrawRequested"}
    IN IF S = {} THEN 0 ELSE CHOOSE i \in S : \A j \in S : j <= i

RECURSIVE MotionSum(_, _)
\* The component-wise sum of the MouseMotion deltas of the events from..to.
MotionSum(from, to) ==
    IF from > to THEN <<0, 0>>
    ELSE LET rest == MotionSum(from, to - 1)
         IN IF calls[to].op = "MouseMotion"
            THEN <<rest[1] + calls[to].arg[1], rest[2] + calls[to].arg[2]>>
            ELSE rest

\* C21: the yaw and pitch of the input record of every redraw are the
\* component-wise sum of the MouseMotion deltas received since the redraw
\* before it, and the motion the App keeps is the sum of the deltas received
\* since the last redraw, so it is zero right after a redraw and every delta
\* is in the record of exactly one frame.
C21_DeltasConsumedOnce ==
    /\ \A i \in 1..Len(calls) :
          calls[i].op = "RedrawRequested" =>
             <<calls[i].arg.yaw, calls[i].arg.pitch>> = MotionSum(LastRedraw(i - 1) + 1, i - 1)
    /\ app.mouse_motion = MotionSum(LastRedraw(Len(calls)) + 1, Len(calls))

\* Two deltas are summed into the record of the second redraw of a run, after
\* a first redraw that had none.
C21_Witness ==
    /\ Len(calls) = 4
    /\ calls[1].op = "RedrawRequested"
    /\ calls[2].op = "MouseMotion"
    /\ calls[3].op = "MouseMotion"
    /\ calls[4].op = "RedrawRequested"
    /\ calls[4].arg.yaw = 0
    /\ calls[4].arg.pitch = 1
    /\ calls[2].arg # calls[3].arg
    /\ calls[1].arg.pitch = 0
    /\ app.mouse_motion = <<0, 0>>

(* ------------------------------ C22 ------------------------------------ *)

\* The commands of the frame that bind the bind group of the camera of the
\* scene for a draw.
ActiveCameraBinds ==
    {i \in Writes("set_bind_group") :
        /\ queue[i].index = 1
        /\ queue[i].bind_group = CameraBindGroup(objects[scene.val.camera.val].data.id)}

\* C22: in a frame that binds the bind group of the camera of the scene to a
\* model draw, the uniform of that camera has been written, from the world
\* transform of this frame, before the first such bind is recorded, whatever
\* the shape of the tree, the scene of the App with its model ahead of its
\* camera included.
C22_CameraPushedBeforeDraw ==
    (scene.some /\ scene.val.camera.some) =>
        \A i \in ActiveCameraBinds :
           \E j \in 1..(i - 1) :
              /\ queue[j].cmd = "write_camera"
              /\ queue[j].camera = objects[scene.val.camera.val].data.id

(* ------------------------------ C23 ------------------------------------ *)

\* The key event pending after the events from..to: the code of the last
\* KeyboardInput among them, none if there is none.
PendingKey(from, to) ==
    LET S == {i \in from..to : calls[i].op = "KeyboardInput"}
    IN IF S = {} THEN None
       ELSE Some(calls[CHOOSE i \in S : \A j \in S : j <= i].arg)

\* The six flags of an input record.
FlagsIn(input) ==
    [f \in {"move_forward", "move_backward", "move_left",
            "move_right", "move_up", "move_down"} |-> input[f]]

\* C23: the input record of every redraw has at most one of the six flags
\* set, the one of the last KeyboardInput received since the redraw before it
\* (none if there was no such event or its key is not one of the six); the
\* event the App keeps is the last one received since the last redraw, so a
\* redraw clears it and an event is in the record of one frame, or of none if
\* another event took its place.
C23_LastKeyOnlyOnce ==
    /\ \A i \in 1..Len(calls) :
          calls[i].op = "RedrawRequested" =>
             /\ FlagsSet(calls[i].arg) <= 1
             /\ FlagsIn(calls[i].arg) = FlagsOf(PendingKey(LastRedraw(i - 1) + 1, i - 1))
    /\ app.key_event = PendingKey(LastRedraw(Len(calls)) + 1, Len(calls))

\* Two keys are pressed before a redraw, whose record has the flag of the
\* second only; the redraw after it has no flag.
C23_Witness ==
    /\ Len(calls) = 4
    /\ calls[1].op = "KeyboardInput" /\ calls[1].arg = "KeyW"
    /\ calls[2].op = "KeyboardInput" /\ calls[2].arg = "KeyA"
    /\ calls[3].op = "RedrawRequested"
    /\ calls[3].arg.move_left /\ ~calls[3].arg.move_forward
    /\ calls[4].op = "RedrawRequested"
    /\ FlagsSet(calls[4].arg) = 0
    /\ app.key_event = None

(* ------------------------------ C24 ------------------------------------ *)

\* The camera writes of the frame just recorded agree with the nodes the
\* step leaves: each holds the world transform its camera has in them.
WritesAfterMovement ==
    LET flat == get_all(objects', scene.val.root).objs
    IN /\ \E i \in 1..Len(queue') : queue'[i].cmd = "write_camera"
       /\ \A i \in 1..Len(queue') :
             queue'[i].cmd = "write_camera" =>
                queue'[i].view_of = WorldOf(flat, queue'[i].camera)

\* C24: a redraw builds the input record from the key event and the motion
\* kept and clears both; with a renderer and a scene it then runs the
\* movement step with that record and then the traversal, so the camera
\* uniform of the frame has the transform the movement step of the frame
\* left; without them neither the nodes nor the frame change.
C24_RedrawOrder ==
    [][(last'.op = "RedrawRequested" /\ Len(calls') = Len(calls) + 1) =>
          LET input == calls'[Len(calls')].arg
          IN /\ input = last'.input
             /\ FlagsIn(input) = FlagsOf(app.key_event)
             /\ <<input.yaw, input.pitch>> = app.mouse_motion
             /\ app'.key_event = None
             /\ app'.mouse_motion = <<0, 0>>
             /\ IF app.renderer /\ scene.some
                THEN /\ objects' = update(scene.val, input).objects
                     /\ queue'[1].cmd = "write_globals"
                     /\ WritesAfterMovement
                ELSE /\ objects' = objects
                     /\ queue' = queue
                     /\ queue = <<>>]_vars

\* A redraw before resumed has left the nodes and the frame alone; after
\* resumed and a pointer motion, a redraw has turned the camera and written
\* its uniform with the turned transform.
C24_Witness ==
    /\ Len(calls) = 4
    /\ calls[1].op = "RedrawRequested"
    /\ calls[2].op = "resumed"
    /\ calls[3].op = "MouseMotion"
    /\ calls[4].op = "RedrawRequested"
    /\ calls[4].arg.yaw # 0
    /\ scene.some /\ scene.val.camera.some
    /\ objects[scene.val.camera.val].xform # from_translation(AppTranslation)
    /\ \E i \in 1..Len(queue) :
          /\ queue[i].cmd = "write_camera"
          /\ queue[i].view_of = objects[scene.val.camera.val].xform

====
